---- MODULE Spec2Model ----
(***************************************************************************)
(* Model of src/EmbeddingSpMDMNBit.cc: the JIT generator of N-bit          *)
(* quantized embedding-bag (SpMDM) kernels.                                *)
(*                                                                         *)
(* Two machines share the module:                                          *)
(*  - the emitted kernel (one invocation), stepped basic block by basic    *)
(*    block of the code GenEmbeddingSpMDMNBitLookup::getOrCreate emits;    *)
(*  - the factories GenerateEmbeddingSpMDMNBit[RowWiseSparse] with the     *)
(*    per-family code cache and the publication mutex.                     *)
(***************************************************************************)
EXTENDS Integers, Sequences, FiniteSets, TLC

(***************************************************************************)
(* Bounds of the model.                                                    *)
(***************************************************************************)
MaxBags == 2
MaxLen == 2
NumThreads == 2
MaxCalls == 2
MaxBlock == 50

(***************************************************************************)
(* Program constants.                                                      *)
(***************************************************************************)
SIZEOF_FLOAT == 4
SIZEOF_FLOAT16 == 2
SIZEOF_INT == 4
TILES_PER_VLOAD == 4

(***************************************************************************)
(* 64-bit two's complement values, as four 16-bit limbs (least significant *)
(* first): the general purpose registers are 64 bits wide.                 *)
(***************************************************************************)
LIMB == 65536

SignExtend32(x) ==
    LET s == IF x < 0 THEN LIMB - 1 ELSE 0
    IN  <<x % LIMB, (x \div LIMB) % LIMB, s, s>>

\* mov r32, m32 clears the upper half of the 64-bit register.
ZeroExtend32(x) == <<x % LIMB, (x \div LIMB) % LIMB, 0, 0>>

W64Add(a, b) ==
    LET s1 == a[1] + b[1]
        s2 == a[2] + b[2] + (s1 \div LIMB)
        s3 == a[3] + b[3] + (s2 \div LIMB)
        s4 == a[4] + b[4] + (s3 \div LIMB)
    IN  <<s1 % LIMB, s2 % LIMB, s3 % LIMB, s4 % LIMB>>

\* imul r64, r64, imm with a small non-negative immediate
W64MulImm(a, k) ==
    LET p1 == a[1] * k
        p2 == a[2] * k + (p1 \div LIMB)
        p3 == a[3] * k + (p2 \div LIMB)
        p4 == a[4] * k + (p3 \div LIMB)
    IN  <<p1 % LIMB, p2 % LIMB, p3 % LIMB, p4 % LIMB>>

W64Top(a) == IF a[4] >= LIMB \div 2 THEN a[4] - LIMB ELSE a[4]

\* signed comparison (the jl / jg / jge conditions after cmp)
W64Less(a, b) ==
    \/ W64Top(a) < W64Top(b)
    \/ /\ W64Top(a) = W64Top(b)
       /\ \/ a[3] < b[3]
          \/ a[3] = b[3] /\ a[2] < b[2]
          \/ a[3] = b[3] /\ a[2] = b[2] /\ a[1] < b[1]

W64Zero == <<0, 0, 0, 0>>
W64MinusOne == <<LIMB - 1, LIMB - 1, LIMB - 1, LIMB - 1>>

\* the value modulo a small k (used to address a periodic table)
W64Mod(a, k) ==
    LET r4 == a[4] % k
        r3 == (r4 * LIMB + a[3]) % k
        r2 == (r3 * LIMB + a[2]) % k
    IN  (r2 * LIMB + a[1]) % k

(***************************************************************************)
(* Bit operations on naturals below 2^31, as vpor / vpand / vpslld compute *)
(* them, nibble by nibble.                                                 *)
(***************************************************************************)
RECURSIVE BitAndRec(_, _)
BitAndRec(a, b) ==
    IF a = 0 \/ b = 0 THEN 0
    ELSE (a % 2) * (b % 2) + 2 * BitAndRec(a \div 2, b \div 2)

RECURSIVE BitOrRec(_, _)
BitOrRec(a, b) ==
    IF a = 0 THEN b
    ELSE IF b = 0 THEN a
    ELSE (IF a % 2 = 1 \/ b % 2 = 1 THEN 1 ELSE 0) + 2 * BitOrRec(a \div 2, b \div 2)

NibbleAnd == [x \in 0 .. 255 |-> BitAndRec(x \div 16, x % 16)]
NibbleOr == [x \in 0 .. 255 |-> BitOrRec(x \div 16, x % 16)]

Nib(a, i) == (a \div i) % 16

BitAnd(a, b) ==
      NibbleAnd[16 * Nib(a, 1) + Nib(b, 1)]
    + 16 * NibbleAnd[16 * Nib(a, 16) + Nib(b, 16)]
    + 256 * NibbleAnd[16 * Nib(a, 256) + Nib(b, 256)]
    + 4096 * NibbleAnd[16 * Nib(a, 4096) + Nib(b, 4096)]
    + 65536 * NibbleAnd[16 * Nib(a, 65536) + Nib(b, 65536)]
    + 1048576 * NibbleAnd[16 * Nib(a, 1048576) + Nib(b, 1048576)]
    + 16777216 * NibbleAnd[16 * Nib(a, 16777216) + Nib(b, 16777216)]
    + 268435456 * NibbleAnd[16 * Nib(a, 268435456) + Nib(b, 268435456)]

BitOr(a, b) ==
      NibbleOr[16 * Nib(a, 1) + Nib(b, 1)]
    + 16 * NibbleOr[16 * Nib(a, 16) + Nib(b, 16)]
    + 256 * NibbleOr[16 * Nib(a, 256) + Nib(b, 256)]
    + 4096 * NibbleOr[16 * Nib(a, 4096) + Nib(b, 4096)]
    + 65536 * NibbleOr[16 * Nib(a, 65536) + Nib(b, 65536)]
    + 1048576 * NibbleOr[16 * Nib(a, 1048576) + Nib(b, 1048576)]
    + 16777216 * NibbleOr[16 * Nib(a, 16777216) + Nib(b, 16777216)]
    + 268435456 * NibbleOr[16 * Nib(a, 268435456) + Nib(b, 268435456)]

RECURSIVE Pow2Rec(_)
Pow2Rec(n) == IF n = 0 THEN 1 ELSE 2 * Pow2Rec(n - 1)

Pow2Table == [n \in 0 .. 30 |-> Pow2Rec(n)]

Pow2(n) == Pow2Table[n]

\* vpslld: shift of a 32-bit lane, bits shifted out of the lane are lost.
\* The lanes of the model stay below 2^31: the shifted bytes are < 2^8.
ShiftLeft32(x, n) == x * Pow2(n)

Min(a, b) == IF a < b THEN a ELSE b

ceil_div(a, b) == (a + b - 1) \div b

(***************************************************************************)
(* vcvtph2ps: IEEE-754 binary16 to binary32, exact.  The tables of the     *)
(* model hold halves with integral values, so the result is an integer.    *)
(***************************************************************************)
HalfToFloat(h) ==
    LET sign == h \div 32768
        e    == (h \div 1024) % 32
        m    == h % 1024
        mag  == IF e = 0 THEN 0
                ELSE IF e >= 25 THEN (1024 + m) * Pow2(e - 25)
                ELSE (1024 + m) \div Pow2(25 - e)
    IN  IF sign = 1 THEN 0 - mag ELSE mag

(***************************************************************************)
(* The instruction sets (simd_info<instSet>) and the quantities the        *)
(* generator computes from a kernel configuration c, a record with the     *)
(* template parameters (instSet, areIndices64b, ROWWISE_SPARSE) and the    *)
(* kernel signature (bit_rate, block_size, has_weight,                     *)
(* is_weight_positional, normalize_by_lengths, prefetch).                  *)
(***************************************************************************)
vlen(c) == IF c.instSet = "avx512" THEN 16 ELSE 8

NUM_VEC_REG(c) == IF c.instSet = "avx512" THEN 32 ELSE 16

sizeof_indxType(c) == IF c.areIndices64b THEN 8 ELSE 4

num_vec_regs_per_block(c) == ceil_div(c.block_size, vlen(c))

remainder(c) == c.block_size % vlen(c)

num_elem_per_32bit(c) == 32 \div c.bit_rate

num_of_32bit_per_vload(c) == (vlen(c) * TILES_PER_VLOAD) \div num_elem_per_32bit(c)

remainder_32bit_granularity(c) ==
    ceil_div(c.block_size, num_elem_per_32bit(c)) % num_of_32bit_per_vload(c)

num_elem_per_byte(c) == 8 \div c.bit_rate

fused_block_size(c) ==
    ceil_div(c.block_size, num_elem_per_byte(c)) + 2 * SIZEOF_FLOAT16

bytes_per_vload(c) == vlen(c) \div num_elem_per_byte(c)

\* the id of the i-th reserved register: --unroll_factor before each
RegId(c, i) == NUM_VEC_REG(c) - i

\* The vector registers reserved before the accumulators, in the order the
\* generator takes them from the top of the register file.
ReservedRegs(c) ==
    <<"scale", "bias", "src", "temp">>
    \o (IF c.bit_rate = 2 THEN <<"temp2">> ELSE <<>>)
    \o <<"extract_mask">>
    \o (IF c.has_weight THEN <<"w">> ELSE <<>>)
    \o (IF remainder(c) # 0 /\ c.instSet = "avx2" THEN <<"mask">> ELSE <<>>)
    \o (IF remainder_32bit_granularity(c) # 0 /\ c.instSet = "avx2"
        THEN <<"mask2">> ELSE <<>>)
    \o (IF c.normalize_by_lengths THEN <<"vlen_inv">> ELSE <<>>)

\* the registers left, rounded up to a multiple of four
unroll_factorRoundedUp(c) == ((NUM_VEC_REG(c) - Len(ReservedRegs(c)) + 3) \div 4) * 4

unroll_factor(c) == ((NUM_VEC_REG(c) - Len(ReservedRegs(c))) \div 4) * 4

cur_unroll_factor(c, vi) == Min(unroll_factor(c), num_vec_regs_per_block(c) - vi)

\* the nibble mask for both bit rates
extract_maskOfNibbles(c) == 252645135

\* The 32-bit lane of extract_mask_vreg: 0x0f0f broadcast by words, or
\* 0x03030303 broadcast by dwords.
extract_mask(c) == IF c.bit_rate = 4 THEN 252645135 ELSE 50529027

(***************************************************************************)
(* The inner tiled loop: one quantized load per batch of four tiles, the   *)
(* bit unpack, and the distribution to the tiles.                          *)
(***************************************************************************)
\* Byte k of a fused row (quantized bytes, then fp16 scale, then fp16 bias).
\* A read past the fused row belongs to the next row of the table or to
\* nothing; it is reported as 255.
RowByte(row, k) == IF k >= 0 /\ k < Len(row) THEN row[k + 1] ELSE 255

\* the masked variant of the quantized load is emitted for this batch
UseMaskedLoad(c, tile) ==
    /\ num_vec_regs_per_block(c) - tile < TILES_PER_VLOAD
    /\ remainder_32bit_granularity(c) # 0

\* The bytes in the low part of src_vreg after the quantized load of the
\* batch starting at tile `tile`.  A masked-off dword is zero with
\* vpmaskmovd (avx2) and keeps the register's previous bytes with the
\* merge-masked vmovups (avx512).
LoadQuantized(c, row, tile, src) ==
    [k \in 0 .. (TILES_PER_VLOAD * bytes_per_vload(c) - 1) |->
        IF UseMaskedLoad(c, tile) /\ (k \div 4) >= remainder_32bit_granularity(c)
        THEN (IF c.instSet = "avx512" THEN src[k] ELSE 0)
        ELSE RowByte(row, tile * bytes_per_vload(c) + k)]

\* the byte offsets from the row base that the quantized load of the batch
\* starting at tile `tile` reads: 4 * bytes_per_vload bytes with the full
\* load, remainder_32bit_granularity dwords with the masked load
LoadedOffsets(c, tile) ==
    {tile * bytes_per_vload(c) + k :
        k \in {x \in 0 .. (TILES_PER_VLOAD * bytes_per_vload(c) - 1) :
                  ~(UseMaskedLoad(c, tile) /\ (x \div 4) >= remainder_32bit_granularity(c))}}

\* the two bytes masked without the shifted copy
UnpackLane4NoShift(c, b0, b1) == BitAnd(b0 + LIMB * b1, extract_mask(c))

\* bit_rate 4: a 32-bit lane holds two zero-extended bytes (vpmovzxbw).
\* src = (src | (src << 4)) & 0x0f0f0f0f
UnpackLane4(c, b0, b1) ==
    LET src  == b0 + LIMB * b1
        temp == ShiftLeft32(src, 4)
    IN  BitAnd(BitOr(src, temp), extract_mask(c))

\* the top crumb shifted by 22 instead of 18
UnpackLane2Shift22(c, b0) ==
    LET temp  == BitOr(ShiftLeft32(b0, 22), ShiftLeft32(b0, 8 + 4))
        temp1 == BitOr(temp, ShiftLeft32(b0, 6))
    IN  BitAnd(BitOr(temp1, b0), extract_mask(c))

\* bit_rate 2: a 32-bit lane holds one zero-extended byte (vpmovzxbd).
\* src = ((src << 18) | (src << 12) | (src << 6) | src) & 0x03030303
UnpackLane2(c, b0) ==
    LET temp  == BitOr(ShiftLeft32(b0, 2 * 8 + 2), ShiftLeft32(b0, 8 + 4))
        temp1 == BitOr(temp, ShiftLeft32(b0, 6))
    IN  BitAnd(BitOr(temp1, b0), extract_mask(c))

ByteOfLane(lane, i) == (lane \div Pow2(8 * i)) % 256

\* the 32-bit lanes of src_vreg after the unpack of the loaded bytes ld
UnpackLanes(c, ld) ==
    [t \in 0 .. (vlen(c) - 1) |->
        IF c.bit_rate = 4
        THEN UnpackLane4(c, ld[2 * t], ld[2 * t + 1])
        ELSE UnpackLane2(c, ld[t])]

\* the bytes of a register given by its 32-bit lanes
BytesOfLanes(c, lanes) ==
    [m \in 0 .. (TILES_PER_VLOAD * vlen(c) - 1) |-> ByteOfLane(lanes[m \div 4], m % 4)]

\* The 4 * vlen bytes of src_vreg after the unpack of the loaded bytes ld.
Unpack(c, ld) == BytesOfLanes(c, UnpackLanes(c, ld))

\* vpmovsxbd: sign extension of a byte
SignExtend8(b) == IF b >= 128 THEN b - 256 ELSE b

\* src_vreg after each batch of one pass over the tile group that starts at
\* tile vi: element n of the result is the register after batch n (batch 0
\* is at tile vi), given the register's bytes src before the pass.
RECURSIVE BatchRegs(_, _, _, _, _)
RECURSIVE BatchRegsFrom(_, _, _, _, _)
BatchRegs(c, row, vi, v, src) ==
    IF v >= cur_unroll_factor(c, vi) THEN <<>>
    ELSE BatchRegsFrom(c, row, vi, v, Unpack(c, LoadQuantized(c, row, vi + v, src)))

BatchRegsFrom(c, row, vi, v, reg) ==
    <<reg>> \o BatchRegs(c, row, vi, v + TILES_PER_VLOAD, reg)

(***************************************************************************)
(* State.                                                                  *)
(*                                                                         *)
(* cfg, arg: the configuration the kernel was generated for and the        *)
(* arguments (with the memory they point to) of the invocation.            *)
(* The registers keep the names of the generator's variables; the pointer  *)
(* registers hold byte offsets from the base of their array.               *)
(***************************************************************************)
VARIABLES
    cfg, arg,
    pc,             \* the basic block the invocation is at
    vec_idx,        \* first tile of the tile group whose code is running
    output_size,    \* zdi: bags left
    index_size,     \* zsi: overwritten with the end address of indices
    indices, lengths, weights, out,
    lengths_R_, scratchReg1_, scratchReg2_,
    vlen_inv_vreg, w_vreg, src_vreg, out_vreg,
    outMem,         \* the floats at out[0 .. output_size * block_size)
    eax,            \* the returned bool
    \* observers of the invocation (not registers)
    wcnt,           \* stores per output element
    oobStore,       \* a store outside the output array happened
    nIdxLoads,      \* loads from the index array so far
    oobLoad,        \* an index or weight load outside its array happened
    sawBadIndex,    \* the middle loop loaded an index outside [0, data_size)
    loadsAfterBad,  \* index loads and stores after sawBadIndex
    \* the factories
    ndebug,         \* the build compiles assert() out
    isa,            \* what the processor supports
    cpuinfo_initialize, \* what cpuinfo_initialize() returns
    tpc,            \* where every thread is in its factory call
    tcall,          \* the call every thread is in
    cache,          \* codeCache_ of every generator family
    rtMutex_,       \* owner of rtMutex_ of every generator family, 0 if free
    fns,            \* the functions added to the runtimes, by pointer
    producerRuns,   \* runs of the producer per family and signature
    failedOnce,     \* the (family, signature) whose publication failed
    returned,       \* the factory calls that ended, with what they gave
    ncalls,         \* factory calls made so far
    \* the emitted inner tiled loop on one fused row, batch by batch
    rsig,           \* the signature the code is emitted for
    rpc,            \* where the emission is
    r_vec_idx, r_v, \* the loop counters vec_idx and v of the generator
    r_plan,         \* the register plan: unroll_factor and the reserved ids
    r_row,          \* the fused row the emitted loads read
    r_src_vreg,     \* the bytes of src_vreg
    r_ld,           \* the bytes the last quantized load put in src_vreg
    r_lanes,        \* the 32-bit lanes of src_vreg after the last unpack
    r_temp,         \* per tile of the row, the lanes of temp_vreg accumulated
    r_loaded        \* the byte offsets from the row base read so far

kvars == <<cfg, arg, pc, vec_idx, output_size, index_size, indices, lengths,
           weights, out, lengths_R_, scratchReg1_, scratchReg2_,
           vlen_inv_vreg, w_vreg, src_vreg, out_vreg, outMem, eax,
           wcnt, oobStore, nIdxLoads, oobLoad, sawBadIndex, loadsAfterBad>>

\* the build and the machine
env == <<ndebug, isa, cpuinfo_initialize>>

fvars == <<env, tpc, tcall, cache, rtMutex_, fns, producerRuns,
           failedOnce, returned, ncalls>>

rvars == <<rsig, rpc, r_vec_idx, r_v, r_plan, r_row, r_src_vreg, r_ld, r_lanes,
           r_temp, r_loaded>>

vars == <<kvars, fvars, rvars>>

(***************************************************************************)
(* Exact values: a float is kept as the fraction num / den it stands for.  *)
(***************************************************************************)
Frac(n, d) == [num |-> n, den |-> d]

FracEq(a, b) == a.num * b.den = b.num * a.den

\* what the output array holds before the kernel writes it
Unwritten == Frac(77, 1)

(***************************************************************************)
(* Memory the kernel reads.                                                *)
(***************************************************************************)
\* The values a load of indices[pos] can return: the element, or anything
\* when pos is outside the array.
IndexValues(a, pos) ==
    IF pos >= 0 /\ pos < Len(a.indices) THEN {a.indices[pos + 1]}
    ELSE {-1, 0, 1}

WeightValues(a, pos) ==
    IF pos >= 0 /\ pos < Len(a.weights) THEN {a.weights[pos + 1]}
    ELSE {0, 1}

LengthAt(a, off) == a.lengths[(off \div SIZEOF_INT) + 1]

\* The fused row at input + r * fused_block_size.  The table of the model
\* repeats its rows: row r holds the bytes of row r mod Len(input).
TableRow(a, r) == a.input[W64Mod(r, Len(a.input)) + 1]

\* compressed_indices_table[r], likewise
CompressedAt(a, r) ==
    a.compressed_indices_table[W64Mod(r, Len(a.compressed_indices_table)) + 1]

\* mov of an element of an indxType array into a 64-bit register: the
\* 64-bit load takes the element as it is, the 32-bit load (into r32)
\* clears the upper half.
LoadIndxType(c, v) == IF c.areIndices64b THEN SignExtend32(v) ELSE ZeroExtend32(v)

\* cmp reg, 0 ; jl error ; cmp reg, data_size ; jge error
IndexCheckFails(r, a) == W64Less(r, W64Zero) \/ ~W64Less(r, a.data_size)

\* no remapped index is skipped
IsSkipNever(c, r) == FALSE

\* cmp scratchReg1_, -1 (the 32-bit compare looks at the low half only)
IsSkip(c, r) ==
    IF c.areIndices64b THEN r = W64MinusOne
    ELSE r[1] = LIMB - 1 /\ r[2] = LIMB - 1

\* a small 64-bit value as an integer of the model
W64ToInt(a) ==
    IF a[4] >= LIMB \div 2
    THEN (a[1] + LIMB * (a[2] - LIMB)) 
    ELSE a[1] + LIMB * a[2]

\* lines 406-412: index_size is overwritten with the end address of indices
EndOfIndices(c, a) == a.index_size * sizeof_indxType(c)

\* the bag the outer loop is at (0-based), from the bag counter
CurBag == arg.output_size - output_size - 1

(***************************************************************************)
(* The emitted kernel, one action per basic block.                         *)
(***************************************************************************)
\* lines 419-451: bag counter, and 1 / length for normalize_by_lengths
OuterHeader ==
    /\ pc = "OUTER_HEADER"
    /\ output_size' = output_size - 1
    /\ IF output_size - 1 < 0
       THEN /\ pc' = "EPILOGUE"
            /\ UNCHANGED <<vlen_inv_vreg, lengths_R_, vec_idx>>
       ELSE /\ pc' = "BOUNDS_A"
            /\ vec_idx' = 0
            /\ IF cfg.normalize_by_lengths
               THEN LET len == LengthAt(arg, lengths)
                    IN  IF len < 1
                        THEN /\ vlen_inv_vreg' = Frac(0, 1)
                             /\ UNCHANGED lengths_R_
                        ELSE /\ vlen_inv_vreg' = Frac(1, len)
                             /\ lengths_R_' = 1
               ELSE UNCHANGED <<vlen_inv_vreg, lengths_R_>>
    /\ UNCHANGED <<cfg, arg, index_size, indices, lengths, weights, out,
                   scratchReg1_, scratchReg2_, w_vreg, src_vreg, out_vreg,
                   outMem, eax, wcnt, oobStore, nIdxLoads, oobLoad,
                   sawBadIndex, loadsAfterBad>>
    /\ UNCHANGED <<fvars, rvars>>

\* guard A with >= for >
GuardAFailsOnEqual(c, len, ind, end) ==
    ~W64Less(W64Add(W64MulImm(ZeroExtend32(len), sizeof_indxType(c)),
                    SignExtend32(ind)),
             SignExtend32(end))

\* lines 464-474, guard A: indices + length * sizeof(indxType) > end
GuardAFails(c, len, ind, end) ==
    W64Less(SignExtend32(end),
            W64Add(W64MulImm(ZeroExtend32(len), sizeof_indxType(c)),
                   SignExtend32(ind)))

\* lines 453-474: head of the code of one tile group
BoundsA ==
    /\ pc = "BOUNDS_A"
    /\ LET len == LengthAt(arg, lengths)
       IN  /\ out_vreg' = [n \in 0 .. (cur_unroll_factor(cfg, vec_idx) * vlen(cfg) - 1) |-> 0]
           /\ lengths_R_' = len
           /\ scratchReg1_' = W64Add(W64MulImm(ZeroExtend32(len), sizeof_indxType(cfg)),
                                    SignExtend32(indices))
           /\ IF GuardAFails(cfg, len, indices, index_size)
              THEN pc' = "EXIT_ERR" /\ eax' = FALSE
              ELSE pc' = "MIDDLE_HEADER" /\ UNCHANGED eax
    /\ UNCHANGED <<cfg, arg, vec_idx, output_size, index_size, indices, lengths,
                   weights, out, scratchReg2_, vlen_inv_vreg, w_vreg, src_vreg,
                   outMem, wcnt, oobStore, nIdxLoads, oobLoad, sawBadIndex,
                   loadsAfterBad>>
    /\ UNCHANGED <<fvars, rvars>>

\* lines 479-482: dataIndex loop counter
MiddleHeader ==
    /\ pc = "MIDDLE_HEADER"
    /\ lengths_R_' = lengths_R_ - 1
    /\ pc' = IF lengths_R_ - 1 < 0 THEN "TILE_STORE" ELSE "BOUNDS_B"
    /\ UNCHANGED <<cfg, arg, vec_idx, output_size, index_size, indices, lengths,
                   weights, out, scratchReg1_, scratchReg2_, vlen_inv_vreg,
                   w_vreg, src_vreg, out_vreg, outMem, eax, wcnt, oobStore,
                   nIdxLoads, oobLoad, sawBadIndex, loadsAfterBad>>
    /\ UNCHANGED <<fvars, rvars>>

InArray(pos, n) == pos >= 0 /\ pos < n

\* lines 516-574: the row to prefetch, as [reg, loads, oob]: the value left
\* in scratchReg2_, the number of index loads made and whether one of them
\* was outside the index array.  cur is the current index, pv the value the
\* peek at distance pref_dist returns.
PrefetchTarget(c, a, ind, end, cur, pv) ==
    LET peekPos  == (ind \div sizeof_indxType(c)) + c.prefetch
        curPos   == ind \div sizeof_indxType(c)
        pastEnd  == ind + c.prefetch * sizeof_indxType(c) >= end
        peek     == LoadIndxType(c, pv)
        peekBad  == W64Less(peek, W64Zero) \/ ~W64Less(peek, a.data_size)
        chosen   == IF pastEnd \/ peekBad THEN LoadIndxType(c, cur) ELSE peek
        remapped == IF c.ROWWISE_SPARSE
                    THEN LoadIndxType(c, CompressedAt(a, chosen))
                    ELSE chosen
    IN  [reg   |-> W64MulImm(remapped, fused_block_size(c)),
         loads |-> IF pastEnd THEN 1 ELSE IF peekBad THEN 2 ELSE 1,
         oob   |-> \/ (~pastEnd /\ ~InArray(peekPos, Len(a.indices)))
                   \/ ((pastEnd \/ peekBad) /\ ~InArray(curPos, Len(a.indices)))]

\* lines 484-592: load and check the index, remap it, pick the prefetch
\* row, advance the cursors, load the weight, skip an absent row
BoundsB ==
    /\ pc = "BOUNDS_B"
    /\ LET pos == indices \div sizeof_indxType(cfg)
           wpos == weights \div SIZEOF_FLOAT
       IN \E v \in IndexValues(arg, pos) :
          \E pv \in (IF cfg.prefetch > 0
                        /\ indices + cfg.prefetch * sizeof_indxType(cfg) < index_size
                     THEN IndexValues(arg, pos + cfg.prefetch) ELSE {0}) :
          \E w \in (IF cfg.has_weight THEN WeightValues(arg, wpos) ELSE {0}) :
          LET idx == LoadIndxType(cfg, v)
              bad == v < 0 \/ ~W64Less(SignExtend32(v), arg.data_size)
              pf  == PrefetchTarget(cfg, arg, indices, index_size, v, pv)
              row == IF cfg.ROWWISE_SPARSE
                     THEN LoadIndxType(cfg, CompressedAt(arg, idx))
                     ELSE idx
          IN  /\ sawBadIndex' = (sawBadIndex \/ bad)
              /\ IF IndexCheckFails(idx, arg)
                 THEN /\ pc' = "EXIT_ERR"
                      /\ eax' = FALSE
                      /\ scratchReg1_' = idx
                      /\ nIdxLoads' = nIdxLoads + 1
                      /\ loadsAfterBad' = loadsAfterBad + (IF sawBadIndex THEN 1 ELSE 0)
                      /\ oobLoad' = (oobLoad \/ ~InArray(pos, Len(arg.indices)))
                      /\ UNCHANGED <<indices, weights, scratchReg2_, w_vreg>>
                 ELSE /\ scratchReg1_' = row
                      /\ indices' = indices + sizeof_indxType(cfg)
                      /\ IF cfg.prefetch > 0
                         THEN /\ scratchReg2_' = pf.reg
                              /\ nIdxLoads' = nIdxLoads + 1 + pf.loads
                              /\ loadsAfterBad' = loadsAfterBad
                                    + (IF sawBadIndex THEN 1 + pf.loads ELSE 0)
                                    + (IF ~sawBadIndex /\ bad THEN pf.loads ELSE 0)
                         ELSE /\ UNCHANGED scratchReg2_
                              /\ nIdxLoads' = nIdxLoads + 1
                              /\ loadsAfterBad' = loadsAfterBad
                                    + (IF sawBadIndex THEN 1 ELSE 0)
                      /\ IF cfg.has_weight
                         THEN /\ w_vreg' = w
                              /\ weights' = weights + SIZEOF_FLOAT
                         ELSE UNCHANGED <<w_vreg, weights>>
                      /\ oobLoad' = \/ oobLoad
                                    \/ ~InArray(pos, Len(arg.indices))
                                    \/ (cfg.prefetch > 0 /\ pf.oob)
                                    \/ (cfg.has_weight /\ ~InArray(wpos, Len(arg.weights)))
                      /\ UNCHANGED eax
                      /\ pc' = IF cfg.ROWWISE_SPARSE /\ IsSkip(cfg, row)
                               THEN "MIDDLE_HEADER" ELSE "INNER_TILES"
    /\ UNCHANGED <<cfg, arg, vec_idx, output_size, index_size, lengths, out,
                   lengths_R_, vlen_inv_vreg, src_vreg, out_vreg, outMem,
                   wcnt, oobStore>>
    /\ UNCHANGED <<fvars, rvars>>

\* lines 594-613: the fp16 scale and bias behind the quantized bytes of the
\* row, converted, and multiplied by the weight for weighted sums
ScaleBias(c, row, w) ==
    LET d     == ceil_div(c.block_size, num_elem_per_byte(c))
        scale == HalfToFloat(RowByte(row, d) + 256 * RowByte(row, d + 1))
        bias  == HalfToFloat(RowByte(row, d + SIZEOF_FLOAT16)
                             + 256 * RowByte(row, d + SIZEOF_FLOAT16 + 1))
    IN  IF c.has_weight
        THEN [scale |-> scale * w, bias |-> bias * w]
        ELSE [scale |-> scale, bias |-> bias]

\* lines 705-742: accumulator lane n (tile n \div vlen of the group) takes
\* byte (tile mod 4) * vlen + lane of the unpacked register of its batch:
\* out = out + bias, then out = temp * scale + out
AccumulateLane(c, regs, sb, acc, n) ==
    LET tile == n \div vlen(c)
        reg  == regs[(tile \div TILES_PER_VLOAD) + 1]
        temp == SignExtend8(reg[(tile % TILES_PER_VLOAD) * vlen(c) + (n % vlen(c))])
    IN  (acc + sb.bias) + temp * sb.scale

\* the accumulators of the tile group after one index
AccumulateAll(c, regs, sb, acc) ==
    [n \in DOMAIN acc |-> AccumulateLane(c, regs, sb, acc[n], n)]

LastOf(regs) == regs[Len(regs)]

\* lines 592-753: scale / bias broadcast and the inner tiled loop
InnerTiles ==
    /\ pc = "INNER_TILES"
    /\ \E regs \in {BatchRegs(cfg, TableRow(arg, scratchReg1_), vec_idx, 0, src_vreg)} :
          /\ out_vreg' = AccumulateAll(cfg, regs,
                                       ScaleBias(cfg, TableRow(arg, scratchReg1_), w_vreg),
                                       out_vreg)
          /\ src_vreg' = LastOf(regs)
    /\ scratchReg1_' = W64MulImm(scratchReg1_, fused_block_size(cfg))
    /\ pc' = "MIDDLE_HEADER"
    /\ UNCHANGED <<cfg, arg, vec_idx, output_size, index_size, indices, lengths,
                   weights, out, lengths_R_, scratchReg2_, vlen_inv_vreg, w_vreg,
                   outMem, eax, wcnt, oobStore, nIdxLoads, oobLoad, sawBadIndex,
                   loadsAfterBad>>
    /\ UNCHANGED <<fvars, rvars>>

\* lines 763-765: the value stored for an accumulator lane
StoredValue(c, acc, inv) ==
    IF c.normalize_by_lengths THEN Frac(acc * inv.num, inv.den) ELSE Frac(acc, 1)

\* the final tile stored in full
LanesStoredInFull(c, tile) == vlen(c)

\* lines 767-775: lanes stored for tile `tile` (the masked store writes the
\* first `remainder` lanes of the final tile)
LanesStored(c, tile) ==
    IF remainder(c) # 0 /\ tile = num_vec_regs_per_block(c) - 1
    THEN remainder(c) ELSE vlen(c)

\* lines 758-776: lane n of the accumulators acc of the tile group at vi is
\* written by the store loop
StoresLane(c, vi, acc, n) ==
    /\ n \in DOMAIN acc
    /\ (n % vlen(c)) < LanesStored(c, vi + (n \div vlen(c)))

\* the output array after the store loop of the tile group at vi, whose
\* first lane goes to element `first`
StoreTiles(c, vi, first, acc, inv, mem) ==
    [e \in DOMAIN mem |->
        IF StoresLane(c, vi, acc, e - first)
        THEN StoredValue(c, acc[e - first], inv)
        ELSE mem[e]]

CountStores(c, vi, first, acc, cnt) ==
    [e \in DOMAIN cnt |->
        IF StoresLane(c, vi, acc, e - first) THEN cnt[e] + 1 ELSE cnt[e]]

StoresOutside(c, vi, first, acc, mem) ==
    \E n \in DOMAIN acc : StoresLane(c, vi, acc, n) /\ (first + n) \notin DOMAIN mem

\* the reset taken on is_weight_positional alone
ResetsCursorsOnPositional(c, vi) ==
    \/ vi + unroll_factor(c) < num_vec_regs_per_block(c)
    \/ c.is_weight_positional

\* lines 778-779: the cursors are reset after this tile group
ResetsCursors(c, vi) ==
    \/ vi + unroll_factor(c) < num_vec_regs_per_block(c)
    \/ (c.has_weight /\ c.is_weight_positional)

\* the weights cursor is left where the traversal ended
WeightsNotRewound(c, vi, w, len) == w

\* lines 784-789: the weights cursor after the reset
WeightsAfterReset(c, vi, w, len) ==
    IF ResetsCursors(c, vi) /\ c.has_weight
    THEN w - W64ToInt(W64MulImm(ZeroExtend32(len), SIZEOF_FLOAT))
    ELSE w

\* the indices cursor is left where the traversal ended
IndicesNotRewound(c, vi, ind, len) == ind

\* the weighted rewind of indices taken in floats, not in index entries
IndicesRewoundByFloats(c, vi, ind, len) ==
    IF ~(vi + unroll_factor(c) < num_vec_regs_per_block(c)) THEN ind
    ELSE IF c.has_weight
    THEN ind - W64ToInt(W64MulImm(ZeroExtend32(len), SIZEOF_FLOAT))
    ELSE ind - W64ToInt(W64MulImm(ZeroExtend32(len), sizeof_indxType(c)))

\* lines 791-803: the indices cursor after the reset
IndicesAfterReset(c, vi, ind, len) ==
    IF ~ResetsCursors(c, vi) THEN ind
    ELSE IF c.has_weight
    THEN (IF vi + unroll_factor(c) < num_vec_regs_per_block(c)
          THEN ind - W64ToInt(W64MulImm(W64MulImm(ZeroExtend32(len), SIZEOF_FLOAT),
                                        sizeof_indxType(c) \div SIZEOF_FLOAT))
          ELSE ind)
    ELSE ind - W64ToInt(W64MulImm(ZeroExtend32(len), sizeof_indxType(c)))

\* lines 756-805: write the accumulators of the tile group back, rewind the
\* cursors for the next traversal of the bag, go to the next tile group
TileStore ==
    /\ pc = "TILE_STORE"
    /\ LET first  == (out \div SIZEOF_FLOAT) + vec_idx * vlen(cfg)
           len    == LengthAt(arg, lengths)
       IN  /\ outMem' = StoreTiles(cfg, vec_idx, first, out_vreg, vlen_inv_vreg, outMem)
           /\ wcnt' = CountStores(cfg, vec_idx, first, out_vreg, wcnt)
           /\ oobStore' = (oobStore \/ StoresOutside(cfg, vec_idx, first, out_vreg, outMem))
           /\ loadsAfterBad' = loadsAfterBad + (IF sawBadIndex THEN 1 ELSE 0)
           /\ IF ResetsCursors(cfg, vec_idx)
              THEN /\ lengths_R_' = len
                   /\ scratchReg1_' =
                        IF cfg.has_weight
                        THEN (IF vec_idx + unroll_factor(cfg) < num_vec_regs_per_block(cfg)
                              THEN W64MulImm(W64MulImm(ZeroExtend32(len), SIZEOF_FLOAT),
                                             sizeof_indxType(cfg) \div SIZEOF_FLOAT)
                              ELSE W64MulImm(ZeroExtend32(len), SIZEOF_FLOAT))
                        ELSE W64MulImm(ZeroExtend32(len), sizeof_indxType(cfg))
              ELSE UNCHANGED <<lengths_R_, scratchReg1_>>
           /\ weights' = WeightsAfterReset(cfg, vec_idx, weights, len)
           /\ indices' = IndicesAfterReset(cfg, vec_idx, indices, len)
    /\ IF vec_idx + unroll_factor(cfg) < num_vec_regs_per_block(cfg)
       THEN vec_idx' = vec_idx + unroll_factor(cfg) /\ pc' = "BOUNDS_A"
       ELSE UNCHANGED vec_idx /\ pc' = "OUTER_FOOTER"
    /\ UNCHANGED <<cfg, arg, output_size, index_size, lengths, out, scratchReg2_,
                   vlen_inv_vreg, w_vreg, src_vreg, out_vreg, eax, nIdxLoads,
                   oobLoad, sawBadIndex>>
    /\ UNCHANGED <<fvars, rvars>>

\* lines 807-810: next bag
OuterFooter ==
    /\ pc = "OUTER_FOOTER"
    /\ lengths' = lengths + SIZEOF_INT
    /\ out' = out + cfg.block_size * SIZEOF_FLOAT
    /\ pc' = "OUTER_HEADER"
    /\ UNCHANGED <<cfg, arg, vec_idx, output_size, index_size, indices, weights,
                   lengths_R_, scratchReg1_, scratchReg2_, vlen_inv_vreg, w_vreg,
                   src_vreg, out_vreg, outMem, eax, wcnt, oobStore, nIdxLoads,
                   oobLoad, sawBadIndex, loadsAfterBad>>
    /\ UNCHANGED <<fvars, rvars>>

\* lines 813-819: all indices must have been consumed
Epilogue ==
    /\ pc = "EPILOGUE"
    /\ IF indices # index_size
       THEN pc' = "EXIT_ERR" /\ eax' = FALSE
       ELSE pc' = "EXIT_OK" /\ eax' = TRUE
    /\ UNCHANGED <<cfg, arg, vec_idx, output_size, index_size, indices, lengths,
                   weights, out, lengths_R_, scratchReg1_, scratchReg2_,
                   vlen_inv_vreg, w_vreg, src_vreg, out_vreg, outMem, wcnt,
                   oobStore, nIdxLoads, oobLoad, sawBadIndex, loadsAfterBad>>
    /\ UNCHANGED <<fvars, rvars>>

NextKernel ==
    \/ OuterHeader
    \/ BoundsA
    \/ MiddleHeader
    \/ BoundsB
    \/ InnerTiles
    \/ TileStore
    \/ OuterFooter
    \/ Epilogue

(***************************************************************************)
(* Inputs of the model.                                                    *)
(***************************************************************************)
\* rows of the (compressed) embedding table
NumRows == 2

\* 2^32, a data_size beyond the reach of a 32-bit index
BigDataSize == <<0, 0, 1, 0>>

Config(inst, i64, sparse, br, bs, hw, pos, norm, pf) ==
    [instSet |-> inst, areIndices64b |-> i64, ROWWISE_SPARSE |-> sparse,
     bit_rate |-> br, block_size |-> bs, has_weight |-> hw,
     is_weight_positional |-> pos, normalize_by_lengths |-> norm,
     prefetch |-> pf]

\* fp16 bit patterns of the scale and the bias of row r: scales 1.0 and 2.0,
\* biases -1.0 and 3.0
ScaleHalfOf(r) == IF r % 2 = 0 THEN 15360 ELSE 16384
BiasHalfOf(r) == IF r % 2 = 0 THEN 48128 ELSE 16896

\* quantized byte k of row r: row 0 is 0x21, 0x43, ..., row 1 is 0x65, 0x87, ...
DataByteOf(r, k) == (33 + 34 * k + 68 * r) % 256

FusedRow(c, r) ==
    [k \in 1 .. fused_block_size(c) |->
        LET d == ceil_div(c.block_size, num_elem_per_byte(c))
        IN  IF k <= d THEN DataByteOf(r, k - 1)
            ELSE IF k = d + 1 THEN ScaleHalfOf(r) % 256
            ELSE IF k = d + 2 THEN ScaleHalfOf(r) \div 256
            ELSE IF k = d + 3 THEN BiasHalfOf(r) % 256
            ELSE BiasHalfOf(r) \div 256]

InputTable(c) == [r \in 1 .. NumRows |-> FusedRow(c, r - 1)]

\* uncompressed rows of the rowwise-sparse variant, and their remap: the
\* last uncompressed row is absent, the others map to the compressed rows
\* in reverse order
NumUncompressed == NumRows + 1
CompressedTable == [u \in 1 .. NumUncompressed |->
                       IF u = NumUncompressed THEN -1 ELSE NumRows - u]

\* data_size of a call within the contract
SmallDataSize(c) == IF c.ROWWISE_SPARSE THEN NumUncompressed ELSE NumRows

RECURSIVE SumTo(_, _)
SumTo(s, n) == IF n <= 0 THEN 0 ELSE s[n] + SumTo(s, n - 1)

MakeArg(c, osz, lens, isz, idxs, dsz) ==
    [output_size |-> osz, index_size |-> isz, data_size |-> dsz,
     input |-> InputTable(c), indices |-> idxs, lengths |-> lens,
     weights |-> IF c.has_weight THEN [p \in 1 .. Len(idxs) |-> p + 1] ELSE <<>>,
     compressed_indices_table |-> IF c.ROWWISE_SPARSE THEN CompressedTable ELSE <<>>]

\* the threads that call the factories
Threads == 1 .. NumThreads

\* a generator family: GenEmbeddingSpMDMNBitLookup<indxType, ROWWISE_SPARSE>
Family(i64, sparse) == [areIndices64b |-> i64, ROWWISE_SPARSE |-> sparse]

Families == {Family(TRUE, FALSE), Family(FALSE, TRUE)}

kernelSig(br, bs, hw, pos, norm, pf) == <<br, bs, hw, pos, norm, pf>>

\* the signatures asked for: two that differ in one field (prefetch), and
\* one with a bit_rate that is neither 2 nor 4
CallSigs ==
    {kernelSig(4, 5, FALSE, FALSE, FALSE, 0),
     kernelSig(4, 5, FALSE, FALSE, FALSE, 1),
     kernelSig(3, 5, FALSE, FALSE, FALSE, 0)}

Keys == Families \X CallSigs

NoCall == [family |-> Family(FALSE, FALSE), sig |-> <<>>, fn |-> 0]

Absent == [st |-> "absent", fn |-> 0]

\* no factory call made yet
FactoryStart(nd, is, ok) ==
    /\ ndebug = nd
    /\ isa = is
    /\ cpuinfo_initialize = ok
    /\ tpc = [t \in Threads |-> "idle"]
    /\ tcall = [t \in Threads |-> NoCall]
    /\ cache = [k \in Keys |-> Absent]
    /\ rtMutex_ = [f \in Families |-> 0]
    /\ fns = <<>>
    /\ producerRuns = [k \in Keys |-> 0]
    /\ failedOnce = {}
    /\ returned = {}
    /\ ncalls = 0

\* the factories at rest
FactoryIdle == FactoryStart(TRUE, "avx2", TRUE)

\* a fused row whose quantized bytes are seed, seed + 0x55, seed + 0xaa, ...
\* (mod 256), with zero scale and bias
SeedRow(c, seed) ==
    [k \in 1 .. fused_block_size(c) |->
        IF k <= ceil_div(c.block_size, num_elem_per_byte(c))
        THEN (seed + 85 * (k - 1)) % 256
        ELSE 0]

\* the emission of the inner tiled loop for c, at `at`, on the row of seed
RowStart(c, seed, at) ==
    /\ rsig = c
    /\ rpc = at
    /\ r_vec_idx = 0
    /\ r_v = 0
    /\ r_plan = [unroll_factor |-> 0, ids |-> <<>>]
    /\ r_row = SeedRow(c, seed)
    /\ r_src_vreg = [k \in 0 .. (TILES_PER_VLOAD * vlen(c) - 1) |-> 255]
    /\ r_ld = <<>>
    /\ r_lanes = <<>>
    /\ r_temp = <<>>
    /\ r_loaded = {}

\* no code is being emitted
RowIdle == RowStart(Config("avx2", FALSE, FALSE, 4, 5, FALSE, FALSE, FALSE, 0), 0, "DONE")

\* the state at the first instruction of the outer loop of an invocation of
\* the kernel generated for c with the arguments a
KernelEntry(c, a) ==
    /\ cfg = c
    /\ arg = a
    /\ pc = "OUTER_HEADER"
    /\ vec_idx = 0
    /\ output_size = a.output_size
    /\ index_size = EndOfIndices(c, a)
    /\ indices = 0
    /\ lengths = 0
    /\ weights = 0
    /\ out = 0
    /\ lengths_R_ = 0
    /\ scratchReg1_ = SignExtend32(EndOfIndices(c, a))
    /\ scratchReg2_ = W64Zero
    /\ vlen_inv_vreg = Frac(0, 1)
    /\ w_vreg = 0
    /\ src_vreg = [k \in 0 .. (TILES_PER_VLOAD * vlen(c) - 1) |-> 255]
    /\ out_vreg = <<>>
    /\ outMem = [e \in 0 .. (a.output_size * c.block_size - 1) |-> Unwritten]
    /\ wcnt = [e \in 0 .. (a.output_size * c.block_size - 1) |-> 0]
    /\ eax = FALSE
    /\ oobStore = FALSE
    /\ nIdxLoads = 0
    /\ oobLoad = FALSE
    /\ sawBadIndex = FALSE
    /\ loadsAfterBad = 0

(***************************************************************************)
(* SpecData: invocations within the contract (indices in range, lengths    *)
(* that add up to index_size), over the kernel signatures.                 *)
(***************************************************************************)
\* every combination of the flags on a row of one tile (32-bit indices on
\* avx2, 64-bit indices on avx512); rows of several tiles (33 elements: five
\* tiles of 8 lanes, in one or two tile groups; 65 elements: five tiles of
\* 16 lanes, in two batches) for the dense kernel of both index widths and
\* for one rowwise-sparse kernel
DataConfigs ==
    {Config(inst, inst = "avx512", sparse, br, IF inst = "avx2" THEN 5 ELSE 16,
            hw, pos, norm, IF hw = pos THEN 1 ELSE 0) :
        inst \in {"avx2", "avx512"}, sparse \in BOOLEAN,
        br \in {2, 4}, hw \in BOOLEAN, pos \in BOOLEAN, norm \in BOOLEAN}
    \cup
    {Config("avx2", i64, FALSE, br, 33, hw, hw /\ pos, norm, 0) :
        i64 \in BOOLEAN, br \in {2, 4}, hw \in BOOLEAN, pos \in BOOLEAN,
        norm \in BOOLEAN}
    \cup
    {Config("avx2", i64, TRUE, 2, 33, TRUE, pos, FALSE, 0) :
        i64 \in BOOLEAN, pos \in BOOLEAN}
    \cup
    {Config("avx512", FALSE, sparse, br, 65, TRUE, FALSE, TRUE, 0) :
        sparse \in BOOLEAN, br \in {2, 4}}

LengthArrays == [1 .. MaxBags -> 0 .. MaxLen]

\* indices that walk the rows of the table, starting at row s
WalkIndices(n, s, dsz) == [p \in 1 .. n |-> (p - 1 + s) % dsz]

InitData ==
    /\ \E c \in DataConfigs, lens \in LengthArrays :
          LET n == SumTo(lens, MaxBags)
          IN  KernelEntry(c, MakeArg(c, MaxBags, lens, n,
                                     WalkIndices(n, lens[1], SmallDataSize(c)),
                                     SignExtend32(SmallDataSize(c))))
    /\ FactoryIdle
    /\ RowIdle

SpecData == InitData /\ [][NextKernel]_vars


(***************************************************************************)
(* What the kernel is to compute, from the arguments alone.                *)
(***************************************************************************)
\* element j of a quantized row: the bit_rate-bit field j, least
\* significant field of each byte first
QuantizedElem(c, row, j) ==
    (row[(j \div num_elem_per_byte(c)) + 1]
        \div Pow2(c.bit_rate * (j % num_elem_per_byte(c)))) % Pow2(c.bit_rate)

ScaleOf(c, row) ==
    HalfToFloat(row[fused_block_size(c) - 3] + 256 * row[fused_block_size(c) - 2])

BiasOf(c, row) ==
    HalfToFloat(row[fused_block_size(c) - 1] + 256 * row[fused_block_size(c)])

\* position in the index array of the first index of bag b (0-based)
BagStart(a, b) == SumTo(a.lengths, b)

\* the weight of the p-th index of bag b (1 without weights)
WeightOf(c, a, b, p) ==
    IF ~c.has_weight THEN 1
    ELSE IF c.is_weight_positional THEN a.weights[p + 1]
    ELSE a.weights[BagStart(a, b) + p + 1]

\* the table row an index names: itself, or its remap (-1: none)
RowNamed(c, a, i) ==
    IF c.ROWWISE_SPARSE THEN a.compressed_indices_table[i + 1] ELSE i

\* SUM over the first n indices of bag b of w * (scale * q + bias), over
\* the indices that name a row
RECURSIVE BagSum(_, _, _, _, _)
BagSum(c, a, b, j, n) ==
    IF n = 0 THEN 0
    ELSE LET r == RowNamed(c, a, a.indices[BagStart(a, b) + n])
         IN  BagSum(c, a, b, j, n - 1)
             + (IF r = -1 THEN 0
                ELSE WeightOf(c, a, b, n - 1)
                     * (ScaleOf(c, a.input[r + 1]) * QuantizedElem(c, a.input[r + 1], j)
                        + BiasOf(c, a.input[r + 1])))

\* n_b
LengthFactor(c, a, b) ==
    IF ~c.normalize_by_lengths THEN Frac(1, 1)
    ELSE IF a.lengths[b + 1] >= 1 THEN Frac(1, a.lengths[b + 1])
    ELSE Frac(0, 1)

Expected(c, a, b, j) ==
    Frac(LengthFactor(c, a, b).num * BagSum(c, a, b, j, a.lengths[b + 1]),
         LengthFactor(c, a, b).den)

OutputIsExpected ==
    \A b \in 0 .. (arg.output_size - 1) : \A j \in 0 .. (cfg.block_size - 1) :
        /\ wcnt[b * cfg.block_size + j] >= 1
        /\ FracEq(outMem[b * cfg.block_size + j], Expected(cfg, arg, b, j))

\* C1: on a successful invocation of the dense kernel, for every bag b and
\* every column j < block_size, out[b][j] = n_b * SUM over the indices i of
\* the bag of w_i * (scale_r * q_(r,j) + bias_r); a bag of length 0 yields
\* an all-zero row.
C1_DenseOutput ==
    (pc = "EXIT_OK" /\ eax /\ ~cfg.ROWWISE_SPARSE) =>
        /\ OutputIsExpected
        /\ \A b \in 0 .. (arg.output_size - 1) :
              arg.lengths[b + 1] = 0 =>
                 \A j \in 0 .. (cfg.block_size - 1) :
                    outMem[b * cfg.block_size + j].num = 0

\* a weighted, normalized sum over a row of two tile groups, with an empty
\* bag and a bag of two indices
C1_Witness ==
    /\ pc = "EXIT_OK" /\ eax /\ ~cfg.ROWWISE_SPARSE
    /\ unroll_factor(cfg) < num_vec_regs_per_block(cfg)
    /\ cfg.has_weight /\ cfg.normalize_by_lengths /\ cfg.bit_rate = 2
    /\ arg.lengths[1] = 0 /\ arg.lengths[2] = 2
    /\ outMem[cfg.block_size].num # 0


\* C5: in the rowwise-sparse kernel an index whose remap is -1 adds nothing
\* to the accumulators but consumes its index slot, its weight slot and its
\* iteration of the length counter, and every output row is the sum, over
\* the indices of the bag whose remap is not -1, of the dense contribution
\* of the remapped row.
C5_SkipStep ==
    (pc = "BOUNDS_B" /\ pc' = "MIDDLE_HEADER") =>
        /\ cfg.ROWWISE_SPARSE
        /\ indices' = indices + sizeof_indxType(cfg)
        /\ weights' = weights + (IF cfg.has_weight THEN SIZEOF_FLOAT ELSE 0)
        /\ out_vreg' = out_vreg
        /\ lengths_R_' = lengths_R_

C5_SparseOutput ==
    /\ [](((pc \in {"EXIT_OK", "EXIT_ERR"}) /\ cfg.ROWWISE_SPARSE) =>
              (pc = "EXIT_OK" /\ eax /\ OutputIsExpected))
    /\ [][C5_SkipStep]_vars

\* a weighted sparse sum whose first bag starts with an absent row
C5_Witness ==
    /\ pc = "EXIT_OK" /\ cfg.ROWWISE_SPARSE /\ cfg.has_weight
    /\ ~cfg.is_weight_positional
    /\ arg.lengths[1] = 2
    /\ arg.compressed_indices_table[arg.indices[1] + 1] = -1
    /\ arg.compressed_indices_table[arg.indices[2] + 1] # -1
    /\ outMem[0].num # 0

\* C6: with has_weight, the weights cursor at the start of every traversal
\* of bag b (every tile group) is the base of the weights when
\* is_weight_positional, and the base plus the lengths of the bags before b
\* otherwise; the weight multiplied into the p-th index of the bag is
\* weights[p], respectively weights[(lengths before b) + p].
C6_WeightsCursor ==
    cfg.has_weight =>
        /\ (pc = "BOUNDS_A") =>
              weights = SIZEOF_FLOAT * (IF cfg.is_weight_positional THEN 0
                                        ELSE BagStart(arg, CurBag))
        /\ (pc \in {"INNER_TILES", "MIDDLE_HEADER"}
              /\ lengths_R_ < arg.lengths[CurBag + 1]) =>
              w_vreg = WeightOf(cfg, arg, CurBag, arg.lengths[CurBag + 1] - 1 - lengths_R_)

\* the second index of the second bag, in the second tile group, with
\* positional weights
C6_Witness ==
    /\ cfg.has_weight /\ cfg.is_weight_positional
    /\ pc = "INNER_TILES" /\ vec_idx > 0 /\ CurBag = 1
    /\ arg.lengths[1] > 0
    /\ arg.lengths[2] - 1 - lengths_R_ = 1

(***************************************************************************)
(* SpecBounds: invocations outside the contract: lengths that do not add   *)
(* up to index_size (or are negative), indices outside [0, data_size), a   *)
(* data_size beyond the reach of a 32-bit index.                           *)
(***************************************************************************)
BoundsConfigs ==
    {Config("avx2", i64, sparse, 4, 5, FALSE, FALSE, FALSE, IF sparse THEN 1 ELSE 0) :
        i64 \in BOOLEAN, sparse \in BOOLEAN}
    \cup
    {Config("avx2", i64, FALSE, 2, 33, hw, FALSE, TRUE, 0) :
        i64 \in BOOLEAN, hw \in BOOLEAN}

AnyLengthArrays == [1 .. MaxBags -> (-1) .. MaxLen]

Max(a, b) == IF a > b THEN a ELSE b

\* the indices of WalkIndices with the index at position k replaced by v
WithIndex(idxs, k, v) == [p \in 1 .. Len(idxs) |-> IF p = k THEN v ELSE idxs[p]]

\* the kernels run on lengths that do not fit: one tile, and two tile groups
SizesConfigs == {c \in BoundsConfigs : c.block_size = 5 \/ (c.has_weight /\ ~c.areIndices64b)}

\* lengths against index_size, all indices in range
InitSizes ==
    \E c \in SizesConfigs, lens \in AnyLengthArrays,
       osz \in (-1) .. MaxBags, d \in {-1, 0, 1} :
          LET n == SumTo(lens, osz) + d
          IN  KernelEntry(c, MakeArg(c, osz, lens, n,
                                     WalkIndices(Max(n, 0), 0, SmallDataSize(c)),
                                     SignExtend32(SmallDataSize(c))))

\* one index out of range
InitBadIndex ==
    \E c \in BoundsConfigs, lens \in LengthArrays, big \in BOOLEAN :
       \E k \in 1 .. SumTo(lens, MaxBags) :
       \E v \in (IF big THEN {-1} ELSE {-1, SmallDataSize(c)}) :
          LET n == SumTo(lens, MaxBags)
          IN  KernelEntry(c, MakeArg(c, MaxBags, lens, n,
                                     WithIndex(WalkIndices(n, 0, SmallDataSize(c)), k, v),
                                     IF big THEN BigDataSize
                                     ELSE SignExtend32(SmallDataSize(c))))

InitBounds == (InitSizes \/ InitBadIndex) /\ FactoryIdle /\ RowIdle

SpecBounds == InitBounds /\ [][NextKernel]_vars

Exited == pc \in {"EXIT_OK", "EXIT_ERR"}

\* the index is outside [0, data_size)
OutOfRange(v, dsz) == v < 0 \/ ~W64Less(SignExtend32(v), dsz)

AllIndicesInRange ==
    \A p \in 1 .. Len(arg.indices) : ~OutOfRange(arg.indices[p], arg.data_size)

\* C2: for both index widths and every data_size, if any index the kernel
\* loads in the middle loop is negative or >= data_size, the invocation
\* returns false.
C2_BadIndexReturnsFalse == (Exited /\ sawBadIndex) => (pc = "EXIT_ERR" /\ ~eax)

NoNegativeLength == \A b \in 1 .. arg.output_size : arg.lengths[b] >= 0

C4_NoPartialBag ==
    (pc = "EXIT_ERR" /\ output_size >= 0) =>
        \A e \in DOMAIN outMem :
            IF e < CurBag * cfg.block_size
            THEN wcnt[e] >= 1 /\ outMem[e] # Unwritten
            ELSE wcnt[e] = 0 /\ outMem[e] = Unwritten

\* the range check fails at the second index of the second bag of a row of
\* two tile groups, after the first bag was written
C4_Witness ==
    /\ pc = "EXIT_ERR" /\ output_size >= 0 /\ CurBag = 1
    /\ unroll_factor(cfg) < num_vec_regs_per_block(cfg)
    /\ sawBadIndex /\ lengths_R_ = 0 /\ arg.lengths[2] = 2
    /\ arg.lengths[1] > 0
    /\ wcnt[0] = 1

\* C9: every invocation reaches an exit, and after the first index outside [0, data_size) the
\* kernel performs no further index load or store.
C9_NoAccessAfterViolation == loadsAfterBad = 0

(***************************************************************************)
(* The factories and the code cache.                                       *)
(***************************************************************************)
\* assert() aborts the process: nothing runs after it
Running == \A t \in Threads : tpc[t] # "aborted"

\* the end of a factory call: kind is "kernel" (a pointer out of the cache,
\* null if fn = 0), "reference" (the closure over the scalar reference) or
\* "runtime_error" (the exception)
Outcome(call, kind, fn) ==
    [family |-> call.family, sig |-> call.sig, kind |-> kind, fn |-> fn]

\* assert((bit_rate == 2 || bit_rate == 4) && ...) stops the call
AssertFails(nd, bit_rate) == ~nd /\ bit_rate \notin {2, 4}

\* GenerateEmbeddingSpMDMNBit and GenerateEmbeddingSpMDMNBitRowWiseSparse up
\* to the call of getOrCreate
Factory(t, fam, sig) ==
    /\ Running
    /\ tpc[t] = "idle"
    /\ ncalls < MaxCalls
    /\ ncalls' = ncalls + 1
    /\ LET call == [family |-> fam, sig |-> sig, fn |-> 0]
       IN  IF AssertFails(ndebug, sig[1])
           THEN /\ tpc' = [tpc EXCEPT ![t] = "aborted"]
                /\ tcall' = [tcall EXCEPT ![t] = call]
                /\ UNCHANGED returned
           ELSE IF ~cpuinfo_initialize
           THEN /\ returned' = returned \cup {Outcome(call, "runtime_error", 0)}
                /\ UNCHANGED <<tpc, tcall>>
           ELSE IF isa = "none"
           THEN /\ returned' = returned \cup {Outcome(call, "reference", 0)}
                /\ UNCHANGED <<tpc, tcall>>
           ELSE /\ tpc' = [tpc EXCEPT ![t] = "getOrCreate"]
                /\ tcall' = [tcall EXCEPT ![t] = call]
                /\ UNCHANGED returned
    /\ UNCHANGED <<env, cache, rtMutex_, fns, producerRuns, failedOnce>>
    /\ UNCHANGED <<kvars, rvars>>

GenerateEmbeddingSpMDMNBit(t) ==
    \E i64 \in BOOLEAN, sig \in CallSigs :
        /\ Family(i64, FALSE) \in Families
        /\ Factory(t, Family(i64, FALSE), sig)

GenerateEmbeddingSpMDMNBitRowWiseSparse(t) ==
    \E i64 \in BOOLEAN, sig \in CallSigs :
        /\ Family(i64, TRUE) \in Families
        /\ Factory(t, Family(i64, TRUE), sig)

\* the key forgets the prefetch distance
CacheKeyWithoutPrefetch(call) ==
    <<call.family, IF call.sig[6] = 1 THEN [call.sig EXCEPT ![6] = 0] ELSE call.sig>>

\* the entry of a call: codeCache_ is one per family, its key is kernelSig
CacheKey(call) == <<call.family, call.sig>>

\* a null pointer is published like any other
PublishedAlways(fn) == [st |-> "ready", fn |-> fn]

\* what the cache keeps of the producer's result: nothing of a null pointer
Published(fn) == IF fn = 0 THEN Absent ELSE [st |-> "ready", fn |-> fn]

\* codeCache_.getOrCreate: the value if there is one; else the caller becomes
\* the producer of the key; a caller that finds a producer at work waits
getOrCreate(t) ==
    /\ Running
    /\ tpc[t] = "getOrCreate"
    /\ LET k == CacheKey(tcall[t])
       IN  /\ cache[k].st # "pending"
           /\ IF cache[k].st = "ready"
              THEN /\ returned' = returned \cup {Outcome(tcall[t], "kernel", cache[k].fn)}
                   /\ tpc' = [tpc EXCEPT ![t] = "idle"]
                   /\ UNCHANGED cache
              ELSE /\ cache' = [cache EXCEPT ![k] = [st |-> "pending", fn |-> 0]]
                   /\ tpc' = [tpc EXCEPT ![t] = "producer"]
                   /\ UNCHANGED returned
    /\ UNCHANGED <<env, tcall, rtMutex_, fns, producerRuns, failedOnce, ncalls>>
    /\ UNCHANGED <<kvars, rvars>>

\* the producer: the code of the kernel is emitted
Producer(t) ==
    /\ Running
    /\ tpc[t] = "producer"
    /\ producerRuns' = [producerRuns EXCEPT ![<<tcall[t].family, tcall[t].sig>>] = @ + 1]
    /\ tpc' = [tpc EXCEPT ![t] = "lock"]
    /\ UNCHANGED <<env, tcall, cache, rtMutex_, fns, failedOnce, returned, ncalls>>
    /\ UNCHANGED <<kvars, rvars>>

\* the runtime is entered without waiting for the mutex
LockRuntimeNoWait(t) ==
    /\ Running
    /\ tpc[t] = "lock"
    /\ rtMutex_' = [rtMutex_ EXCEPT ![tcall[t].family] = t]
    /\ tpc' = [tpc EXCEPT ![t] = "add"]
    /\ UNCHANGED <<env, tcall, cache, fns, producerRuns, failedOnce, returned, ncalls>>
    /\ UNCHANGED <<kvars, rvars>>

\* unique_lock<mutex> lock(rtMutex_)
LockRuntime(t) ==
    /\ Running
    /\ tpc[t] = "lock"
    /\ rtMutex_[tcall[t].family] = 0
    /\ rtMutex_' = [rtMutex_ EXCEPT ![tcall[t].family] = t]
    /\ tpc' = [tpc EXCEPT ![t] = "add"]
    /\ UNCHANGED <<env, tcall, cache, fns, producerRuns, failedOnce, returned, ncalls>>
    /\ UNCHANGED <<kvars, rvars>>

\* err = runtime().add(&fn, &code), and the end of the lock's scope; on an
\* error the producer returns nullptr
RuntimeAdd(t) ==
    /\ Running
    /\ tpc[t] = "add"
    /\ \E err \in BOOLEAN :
          IF err
          THEN /\ tcall' = [tcall EXCEPT ![t].fn = 0]
               /\ UNCHANGED fns
          ELSE /\ fns' = Append(fns, [family |-> tcall[t].family, sig |-> tcall[t].sig,
                                      instSet |-> isa])
               /\ tcall' = [tcall EXCEPT ![t].fn = Len(fns) + 1]
    /\ rtMutex_' = [rtMutex_ EXCEPT ![tcall[t].family] = 0]
    /\ tpc' = [tpc EXCEPT ![t] = "publish"]
    /\ UNCHANGED <<env, cache, producerRuns, failedOnce, returned, ncalls>>
    /\ UNCHANGED <<kvars, rvars>>

\* codeCache_.getOrCreate after the producer: the result is published and
\* returned
CachePublish(t) ==
    /\ Running
    /\ tpc[t] = "publish"
    /\ cache' = [cache EXCEPT ![CacheKey(tcall[t])] = Published(tcall[t].fn)]
    /\ failedOnce' = IF tcall[t].fn = 0
                     THEN failedOnce \cup {<<tcall[t].family, tcall[t].sig>>}
                     ELSE failedOnce
    /\ returned' = returned \cup {Outcome(tcall[t], "kernel", tcall[t].fn)}
    /\ tpc' = [tpc EXCEPT ![t] = "idle"]
    /\ UNCHANGED <<env, tcall, rtMutex_, fns, producerRuns, ncalls>>
    /\ UNCHANGED <<kvars, rvars>>

NextFactory ==
    \E t \in Threads :
        \/ GenerateEmbeddingSpMDMNBit(t)
        \/ GenerateEmbeddingSpMDMNBitRowWiseSparse(t)
        \/ getOrCreate(t)
        \/ Producer(t)
        \/ LockRuntime(t)
        \/ RuntimeAdd(t)
        \/ CachePublish(t)

\* no kernel is running
KernelIdle ==
    KernelEntry(Config("avx2", FALSE, FALSE, 4, 5, FALSE, FALSE, FALSE, 0),
                MakeArg(Config("avx2", FALSE, FALSE, 4, 5, FALSE, FALSE, FALSE, 0),
                        0, [b \in 1 .. MaxBags |-> 0], 0, <<>>, SignExtend32(NumRows)))

InitFactory ==
    /\ KernelIdle
    /\ RowIdle
    /\ \E nd \in BOOLEAN, is \in {"avx512", "avx2", "none"}, ok \in BOOLEAN :
          FactoryStart(nd, is, ok)

SpecFactory == InitFactory /\ [][NextFactory]_vars

\* the functions the runtime of the family holds for a key
FnsOf(k) == {n \in DOMAIN fns : fns[n].family = k[1] /\ fns[n].sig = k[2]}

\* the threads inside the producer of a key
Producing(k) ==
    {t \in Threads : /\ tpc[t] \in {"producer", "lock", "add", "publish"}
                     /\ tcall[t].family = k[1] /\ tcall[t].sig = k[2]}

\* the non-null kernels the calls of a key were given
KernelsOf(k) ==
    {r.fn : r \in {x \in returned : /\ x.kind = "kernel" /\ x.fn # 0
                                    /\ x.family = k[1] /\ x.sig = k[2]}}

C8_RetryStep ==
    \A t \in Threads :
        (/\ tpc[t] = "getOrCreate" /\ tpc'[t] # "getOrCreate"
         /\ cache[CacheKey(tcall[t])].st = "absent") =>
            /\ tpc'[t] = "producer"
            /\ cache'[CacheKey(tcall[t])].st = "pending"

\* C8: when the runtime add fails and the producer returns a null pointer,
\* the cache keeps no entry for the signature (no entry ever holds a null
\* pointer, and the entry is absent once the failed call has returned), and
\* a later getOrCreate call of the signature runs the producer again.
C8_FailureNotCached ==
    /\ [](\A k \in Keys :
             /\ cache[k].st = "ready" => cache[k].fn # 0
             /\ (k \in failedOnce /\ Producing(k) = {} /\ FnsOf(k) = {})
                   => cache[k].st = "absent")
    /\ [][C8_RetryStep]_vars

\* the publication failed, a later call ran the producer again and got a
\* kernel
C8_Witness ==
    \E k \in Keys :
        /\ k \in failedOnce
        /\ producerRuns[k] = 2
        /\ cache[k].st = "ready"
        /\ [family |-> k[1], sig |-> k[2], kind |-> "kernel", fn |-> 0] \in returned
        /\ KernelsOf(k) # {}

\* C10: a factory call with a bit_rate other than 2 and 4, or made when
\* cpuinfo_initialize fails, ends with an error given to the caller: the
\* process is not aborted, the call returns no kernel, the producer does not
\* run and the cache gets no entry.
C10_InvalidCallFails ==
    /\ Running
    /\ \A r \in returned :
          (r.sig[1] \notin {2, 4} \/ ~cpuinfo_initialize) => r.kind = "runtime_error"
    /\ \A k \in Keys :
          (k[2][1] \notin {2, 4} \/ ~cpuinfo_initialize) =>
              (producerRuns[k] = 0 /\ cache[k].st = "absent")

(***************************************************************************)
(* The cursors over the tile groups of a bag.                              *)
(***************************************************************************)
\* C11: at the start of every traversal of bag b (every tile group) the
\* indices cursor is the base plus the lengths of the bags 0..b-1, and after
\* the last tile group of bag b it is that plus lengths[b], for every
\* has_weight, is_weight_positional, index width and number of tile groups.
C11_IndicesCursor ==
    /\ (pc = "BOUNDS_A") =>
          indices = sizeof_indxType(cfg) * BagStart(arg, CurBag)
    /\ (pc = "OUTER_FOOTER") =>
          indices = sizeof_indxType(cfg) * (BagStart(arg, CurBag) + arg.lengths[CurBag + 1])

\* the second tile group of the second bag of a weighted sum over 64-bit
\* indices, after the weighted rewind
C11_Witness ==
    /\ pc = "BOUNDS_A" /\ vec_idx > 0 /\ CurBag = 1
    /\ cfg.has_weight /\ cfg.areIndices64b
    /\ arg.lengths[1] > 0 /\ arg.lengths[2] > 0

\* the bag traversed by the tile group whose store is at hand
LengthOfBag == LengthAt(arg, lengths)

GroupFollows == vec_idx + unroll_factor(cfg) < num_vec_regs_per_block(cfg)

\* C12 as stated: after the tile store, if another tile group follows or
\* is_weight_positional is set, indices is rewound by length entries and
\* weights too when weights are present; otherwise neither cursor changes.
C12_OriginalStep ==
    (pc = "TILE_STORE") =>
        IF GroupFollows \/ cfg.is_weight_positional
        THEN /\ indices' = indices - LengthOfBag * sizeof_indxType(cfg)
             /\ weights' = weights - (IF cfg.has_weight THEN LengthOfBag * SIZEOF_FLOAT ELSE 0)
        ELSE indices' = indices /\ weights' = weights

C12_Original == [][C12_OriginalStep]_vars

\* C12, amended: after the tile store, if another tile group follows,
\* indices is rewound by length entries and weights too when has_weight; if
\* none follows and has_weight and is_weight_positional, weights alone is
\* rewound by length entries; in every other case neither cursor changes.
C12_ResetStep ==
    (pc = "TILE_STORE") =>
        IF GroupFollows
        THEN /\ indices' = indices - LengthOfBag * sizeof_indxType(cfg)
             /\ weights' = weights - (IF cfg.has_weight THEN LengthOfBag * SIZEOF_FLOAT ELSE 0)
        ELSE IF cfg.has_weight /\ cfg.is_weight_positional
        THEN /\ indices' = indices
             /\ weights' = weights - LengthOfBag * SIZEOF_FLOAT
        ELSE indices' = indices /\ weights' = weights

C12_Reset == [][C12_ResetStep]_vars

\* after the last tile group of a bag with positional weights: weights is
\* back at its base, indices is past the bag
C12_Witness ==
    /\ pc = "OUTER_FOOTER"
    /\ cfg.has_weight /\ cfg.is_weight_positional
    /\ arg.lengths[CurBag + 1] = 2
    /\ weights = 0
    /\ indices = sizeof_indxType(cfg) * (BagStart(arg, CurBag) + 2)

(***************************************************************************)
(* SpecRow: the register plan and the emitted inner tiled loop, run on one *)
(* fused row batch by batch, for every block_size up to MaxBlock.          *)
(***************************************************************************)
\* lines 275-360: the reserved registers and the unroll factor
PlanRegisters ==
    /\ rpc = "PLAN"
    /\ r_plan' = [unroll_factor |-> unroll_factor(rsig),
                  ids |-> [i \in 1 .. Len(ReservedRegs(rsig)) |-> RegId(rsig, i)]]
    /\ rpc' = "GROUP"
    /\ UNCHANGED <<rsig, r_vec_idx, r_v, r_row, r_src_vreg, r_ld, r_lanes, r_temp, r_loaded>>
    /\ UNCHANGED <<kvars, fvars>>

\* lines 453-456: for (vec_idx = 0; vec_idx < num_vec_regs_per_block; ...)
TileGroup ==
    /\ rpc = "GROUP"
    /\ IF r_vec_idx < num_vec_regs_per_block(rsig)
       THEN r_v' = 0 /\ rpc' = "BATCH"
       ELSE UNCHANGED r_v /\ rpc' = "DONE"
    /\ UNCHANGED <<rsig, r_vec_idx, r_plan, r_row, r_src_vreg, r_ld, r_lanes, r_temp, r_loaded>>
    /\ UNCHANGED <<kvars, fvars>>

\* lines 705-738: the lanes of temp_vreg for the tiles of a batch, from the
\* bytes of src_vreg
TilesOfBatch(c, tile, bytes) ==
    [i \in 1 .. Min(TILES_PER_VLOAD, num_vec_regs_per_block(c) - tile) |->
        [l \in 0 .. (vlen(c) - 1) |-> SignExtend8(bytes[(i - 1) * vlen(c) + l])]]

\* lines 623-742: one batch of four tiles: load, unpack, distribute
Batch ==
    /\ rpc = "BATCH"
    /\ r_v < cur_unroll_factor(rsig, r_vec_idx)
    /\ \E ld \in {LoadQuantized(rsig, r_row, r_vec_idx + r_v, r_src_vreg)} :
       \E lanes \in {UnpackLanes(rsig, ld)} :
          /\ r_ld' = ld
          /\ r_lanes' = lanes
          /\ r_src_vreg' = BytesOfLanes(rsig, lanes)
          /\ r_temp' = r_temp \o TilesOfBatch(rsig, r_vec_idx + r_v, BytesOfLanes(rsig, lanes))
    /\ r_loaded' = r_loaded \cup LoadedOffsets(rsig, r_vec_idx + r_v)
    /\ r_v' = r_v + TILES_PER_VLOAD
    /\ UNCHANGED <<rsig, rpc, r_vec_idx, r_plan, r_row>>
    /\ UNCHANGED <<kvars, fvars>>

\* lines 453-454: vec_idx += unroll_factor
NextGroup ==
    /\ rpc = "BATCH"
    /\ r_v >= cur_unroll_factor(rsig, r_vec_idx)
    /\ r_vec_idx' = r_vec_idx + unroll_factor(rsig)
    /\ rpc' = "GROUP"
    /\ UNCHANGED <<rsig, r_v, r_plan, r_row, r_src_vreg, r_ld, r_lanes, r_temp, r_loaded>>
    /\ UNCHANGED <<kvars, fvars>>

NextRow == PlanRegisters \/ TileGroup \/ Batch \/ NextGroup

\* every block_size on one row; and every byte value on rows of five tiles
RowConfigs ==
    {Config(inst, FALSE, FALSE, br, bs, hw, FALSE, norm, 0) :
        inst \in {"avx2", "avx512"}, br \in {2, 4}, bs \in 1 .. MaxBlock,
        hw \in BOOLEAN, norm \in BOOLEAN}

ByteConfigs ==
    {Config(inst, FALSE, FALSE, br, TILES_PER_VLOAD * (IF inst = "avx2" THEN 8 ELSE 16) + 1,
            hw, FALSE, FALSE, 0) :
        inst \in {"avx2", "avx512"}, br \in {2, 4}, hw \in BOOLEAN}

InitRow ==
    /\ KernelIdle
    /\ FactoryIdle
    /\ \/ \E c \in RowConfigs, seed \in {27} : RowStart(c, seed, "PLAN")
       \/ \E c \in ByteConfigs, seed \in 0 .. 255 : RowStart(c, seed, "PLAN")

SpecRow == InitRow /\ [][NextRow]_vars

\* C13: every quantized-data load of the inner tiled loop, masked or full,
\* reads only bytes of the fused row of the current index: offsets in
\* [0, ceil(block_size / (8 / bit_rate)) + 4) from the row base.
C13_LoadsInsideRow ==
    \A k \in r_loaded :
        /\ k >= 0
        /\ k < ceil_div(rsig.block_size, 8 \div rsig.bit_rate) + 2 * SIZEOF_FLOAT16

(***************************************************************************)
(* Stores and loads of an invocation.                                      *)
(***************************************************************************)
\* C14: on a successful invocation every output element out[b * block_size
\* + j], b < output_size, j < block_size, is written exactly once and no
\* float outside the output array is written.
C14_WrittenOnce ==
    (pc = "EXIT_OK") =>
        /\ DOMAIN wcnt = 0 .. (arg.output_size * cfg.block_size - 1)
        /\ \A e \in DOMAIN wcnt : wcnt[e] = 1
        /\ ~oobStore

\* rows of 33 floats on avx2, stored in two tile groups, the final tile
\* through the masked store
C14_Witness ==
    /\ pc = "EXIT_OK"
    /\ remainder(cfg) # 0
    /\ unroll_factor(cfg) < num_vec_regs_per_block(cfg)
    /\ arg.output_size = MaxBags
    /\ arg.lengths[1] > 0
    /\ wcnt[arg.output_size * cfg.block_size - 1] = 1

\* the position of the index cursor in the index array
CurPos == indices \div sizeof_indxType(cfg)

\* the indices of the bag at the head of a tile group would extend past
\* the end of the index array
BagPastEnd == CurPos + LengthOfBag > arg.index_size

\* the peek at distance prefetch lies inside the index array
PeekInside == InArray(CurPos + cfg.prefetch, arg.index_size)

\* the index whose row is prefetched: the peeked one when it lies inside
\* the array and is a row of the table, the current one otherwise
PrefetchedIndex ==
    IF PeekInside /\ ~OutOfRange(arg.indices[CurPos + cfg.prefetch + 1], arg.data_size)
    THEN arg.indices[CurPos + cfg.prefetch + 1]
    ELSE arg.indices[CurPos + 1]

PrefetchedRow ==
    LET chosen == LoadIndxType(cfg, PrefetchedIndex)
    IN  W64MulImm(IF cfg.ROWWISE_SPARSE
                  THEN LoadIndxType(cfg, CompressedAt(arg, chosen))
                  ELSE chosen,
                  fused_block_size(cfg))

\* C15: no invocation loads an index, or a weight, at a position >=
\* index_size; a bag whose indices would extend past the end of the indices
\* goes from guard A to the error exit with no index read; and the row
\* prefetched is that of the peeked index when the peek lies inside the
\* index array and the peeked value is in [0, data_size), that of the
\* current index otherwise.
C15_Step ==
    /\ ~oobLoad'
    /\ (pc = "BOUNDS_A" /\ BagPastEnd) =>
            (pc' = "EXIT_ERR" /\ nIdxLoads' = nIdxLoads)
    /\ (pc = "BOUNDS_B" /\ pc' # "EXIT_ERR" /\ cfg.prefetch > 0) =>
            scratchReg2_' = PrefetchedRow

C15_NoLoadPastEnd == [][C15_Step]_vars

(***************************************************************************)
(* The unpack of the quantized elements.                                   *)
(***************************************************************************)
\* a batch of the row has been loaded and unpacked
Unpacked == rpc \in {"BATCH", "GROUP", "DONE"} /\ Len(r_temp) > 0

\* C16: for every packed byte value, both bit rates and both instruction
\* sets, the unpack leaves every byte of src_vreg with only its low
\* bit_rate bits, and element j of the row (field j mod (8 / bit_rate) of
\* byte j div (8 / bit_rate), least significant field first) is the value
\* of lane j mod vlen of the tile j div vlen that is accumulated.
C16_ElementPlacement ==
    Unpacked =>
        /\ \A m \in DOMAIN r_src_vreg : r_src_vreg[m] < Pow2(rsig.bit_rate)
        /\ \A t \in 1 .. Len(r_temp) : \A l \in 0 .. (vlen(rsig) - 1) :
              LET j == (t - 1) * vlen(rsig) + l
              IN  j < rsig.block_size => r_temp[t][l] = QuantizedElem(rsig, r_row, j)

\* a row of five tiles whose first byte is 255 and second byte 84: all
\* tiles unpacked, the first elements are the fields of the first byte
C16_Witness ==
    /\ rpc = "DONE"
    /\ rsig \in ByteConfigs
    /\ r_row[1] = 255 /\ r_row[2] = 84
    /\ Len(r_temp) = num_vec_regs_per_block(rsig)
    /\ Len(r_temp) > TILES_PER_VLOAD
    /\ r_temp[1][0] = Pow2(rsig.bit_rate) - 1
    /\ r_temp[1][1] = Pow2(rsig.bit_rate) - 1
    /\ r_temp[Len(r_temp)][0] = QuantizedElem(rsig, r_row, rsig.block_size - 1)

\* a batch of a bit_rate 2 row has been loaded and unpacked
Unpacked2 == Unpacked /\ rsig.bit_rate = 2

\* C17 as stated: for bit_rate 2 each 32-bit lane holding the zero-extended
\* byte src becomes ((src << 22) | (src << 12) | (src << 6) | src) &
\* 0x03030303.
C17_Original ==
    Unpacked2 =>
        \A t \in DOMAIN r_lanes :
            r_lanes[t] = BitAnd(BitOr(BitOr(BitOr(ShiftLeft32(r_ld[t], 22),
                                                  ShiftLeft32(r_ld[t], 12)),
                                            ShiftLeft32(r_ld[t], 6)),
                                      r_ld[t]),
                                50529027)

\* C17, amended: for bit_rate 2 each 32-bit lane holding the zero-extended
\* byte src becomes ((src << 18) | (src << 12) | (src << 6) | src) &
\* 0x03030303, and byte i of the lane is the 2-bit field i of src, the
\* least significant field first.
C17_Unpack2 ==
    Unpacked2 =>
        \A t \in DOMAIN r_lanes :
            /\ r_lanes[t] = BitAnd(BitOr(BitOr(BitOr(ShiftLeft32(r_ld[t], 18),
                                                     ShiftLeft32(r_ld[t], 12)),
                                               ShiftLeft32(r_ld[t], 6)),
                                         r_ld[t]),
                                   50529027)
            /\ \A i \in 0 .. 3 :
                  ByteOfLane(r_lanes[t], i) = (r_ld[t] \div Pow2(2 * i)) % 4

\* the byte 27 (fields 3, 2, 1, 0) unpacked into the lane 0x00010203
C17_Witness ==
    /\ Unpacked2
    /\ r_ld[0] = 27
    /\ r_lanes[0] = 66051

(***************************************************************************)
(* The register plan.                                                      *)
(***************************************************************************)
\* the registers have been planned
Planned == Len(r_plan.ids) > 0

\* the number of reservations: scale, bias, src, temp, extract_mask, and
\* those that depend on the signature
NumReserved ==
    5 + (IF rsig.bit_rate = 2 THEN 1 ELSE 0)
      + (IF rsig.has_weight THEN 1 ELSE 0)
      + (IF rsig.instSet = "avx2" /\ rsig.block_size % vlen(rsig) # 0 THEN 1 ELSE 0)
      + (IF rsig.instSet = "avx2" /\ remainder_32bit_granularity(rsig) # 0 THEN 1 ELSE 0)
      + (IF rsig.normalize_by_lengths THEN 1 ELSE 0)

\* C18: for every signature and both register files, the unroll factor is
\* the number of registers left after the reservations rounded down to a
\* multiple of four, it is at least 4, the reserved ids are pairwise
\* distinct, and every reserved id is >= the unroll factor.
C18_RegisterPlan ==
    Planned =>
        /\ Len(r_plan.ids) = NumReserved
        /\ r_plan.unroll_factor = ((NUM_VEC_REG(rsig) - NumReserved) \div 4) * 4
        /\ r_plan.unroll_factor >= 4
        /\ \A i, k \in DOMAIN r_plan.ids : i # k => r_plan.ids[i] # r_plan.ids[k]
        /\ \A i \in DOMAIN r_plan.ids : r_plan.ids[i] >= r_plan.unroll_factor

\* the 256-bit set with all ten reservations: six registers left, four
\* accumulators, the last reserved register is 6
C18_Witness ==
    /\ Planned
    /\ rsig.instSet = "avx2"
    /\ Len(r_plan.ids) = 10
    /\ r_plan.unroll_factor = 4
    /\ r_plan.ids[10] = 6

(***************************************************************************)
(* The publication of generated code.                                      *)
(***************************************************************************)
\* the threads inside runtime().add
InAdd == {t \in Threads : tpc[t] = "add"}

====
